---- MODULE Spec2Model ----
(***************************************************************************)
(* Model of the WIZnet5k DNS client (adafruit_wiznet5k_dns.py, class DNS). *)
(*                                                                         *)
(* Bytes are the integers 0..255, a buffer (bytearray) is a sequence of    *)
(* bytes, a hostname is the sequence of its character codes.  Python       *)
(* indices are 0-based and TLA+ sequences 1-based: every operator below    *)
(* takes Python indices and shifts by one internally.                      *)
(*                                                                         *)
(* A value that gethostbyname or _parse_dns_response hands back is a       *)
(* tagged record, so that Python's comparison of a bytearray with -1       *)
(* (always unequal) can be written down: IntVal(n), BytesVal(b), Raised.   *)
(*                                                                         *)
(* Time is counted in ticks of the polling sleep (time.sleep(0.05)), so    *)
(* the 1.0 second deadline is 20 ticks.                                    *)
(***************************************************************************)
EXTENDS Integers, Sequences, FiniteSets, TLC

VARIABLES
    dns_server,   \* self._dns_server: None or the resolver address
    host,         \* self._host: 0 until the first query, then its hostname
    request_id,   \* self._request_id
    pkt_buf,      \* self._pkt_buf
    pc,           \* where gethostbyname stands: "idle", "attempt", "loop"
    retries,      \* local of gethostbyname
    addr,         \* local of gethostbyname
    elapsed,      \* time.monotonic() - start_time, in ticks, in the wait loop
    rx,           \* the socket's receive buffer: at most one pending datagram
    ops,          \* socket calls made during the current/last call, by name
    polled,       \* whether available() was called during the current/last call
    outcomes,     \* return site of each attempt of the current/last call
    result,       \* what the last finished call handed back
    call_id       \* the id getrandbits produced when the current/last call began

vars == <<dns_server, host, request_id, pkt_buf, pc, retries, addr, elapsed,
          rx, ops, polled, outcomes, result, call_id>>

(***************************************************************************)
(* Program constants.                                                      *)
(***************************************************************************)
TYPE_A == 1
CLASS_IN == 1
DATA_LEN == 4
TIMED_OUT == -1
INVALID_SERVER == -2
RESPONSE_FLAGS == 33152
POINTER_HI == 192
POINTER_LO == 12
HEADER_LEN == 12
MAX_ATTEMPTS == 3
DEADLINE_TICKS == 20
DOT == 46

None == "None"

(***************************************************************************)
(* Bounds of the model.                                                    *)
(***************************************************************************)
\* A call begins only while the (never emptied) packet buffer plus the new
\* query stays within this many bytes.
MaxBufLen == 58

(***************************************************************************)
(* Values                                                                  *)
(***************************************************************************)
IntVal(n) == [type |-> "int", int |-> n, bytes |-> <<>>]
BytesVal(b) == [type |-> "bytes", int |-> 0, bytes |-> b]
Raised == [type |-> "raise", int |-> 0, bytes |-> <<>>]
NoValue == [type |-> "none", int |-> 0, bytes |-> <<>>]

\* Python: addr == -1
IsMinusOne(v) == v.type = "int" /\ v.int = -1

Min(a, b) == IF a < b THEN a ELSE b

(***************************************************************************)
(* Buffer primitives                                                       *)
(***************************************************************************)
\* Python buf[lo:hi] for 0 <= lo, 0 <= hi: clipped to the buffer, never raising.
Slice(buf, lo, hi) == SubSeq(buf, lo + 1, Min(hi, Len(buf)))

\* int.from_bytes(b, 'l') on MicroPython/CircuitPython: any byteorder
\* argument other than "little" reads big-endian; the empty slice reads 0.
RECURSIVE from_bytes(_)
from_bytes(b) ==
    IF Len(b) = 0 THEN 0
    ELSE from_bytes(SubSeq(b, 1, Len(b) - 1)) * 256 + b[Len(b)]

\* bytearray.find(b'\xc0\x0c'): the lowest 0-based index of the pair, or -1.
find(buf) ==
    LET hits == {i \in 0..(Len(buf) - 2) :
                    buf[i + 1] = POINTER_HI /\ buf[i + 2] = POINTER_LO}
    IN  IF hits = {} THEN -1
        ELSE CHOOSE i \in hits : \A j \in hits : i <= j

\* adafruit_wiznet5k_socket.htons
htons(x) == ((x * 256) % 65536) + ((x \div 256) % 256)

\* str.split("."): the labels of a hostname, empty labels included.
RECURSIVE split(_)
split(h) ==
    IF \A i \in 1..Len(h) : h[i] # DOT THEN <<h>>
    ELSE LET k == CHOOSE i \in 1..Len(h) :
                      h[i] = DOT /\ \A j \in 1..(i - 1) : h[j] # DOT
         IN  <<SubSeq(h, 1, k - 1)>> \o split(SubSeq(h, k + 1, Len(h)))

(***************************************************************************)
(* Query builder                                                           *)
(***************************************************************************)
\* _build_dns_header: appends the 12 header bytes to the buffer as it is.
build_dns_header(buf, rid) ==
    buf \o <<rid \div 256, rid % 256, 1, 0, 0, 1, 0, 0, 0, 0, 0, 0>>

RECURSIVE append_labels(_, _)
append_labels(buf, labels) ==
    IF labels = <<>> THEN buf
    ELSE append_labels(buf \o <<Len(Head(labels))>> \o Head(labels), Tail(labels))

build_dns_question_host_order(buf, h) ==
    append_labels(buf, split(h))
        \o <<0,
             TYPE_A % 256, TYPE_A \div 256,
             CLASS_IN % 256, CLASS_IN \div 256>>

\* _build_dns_question: appends the question for hostname h.
build_dns_question(buf, h) ==
    append_labels(buf, split(h))
        \o <<0,
             htons(TYPE_A) % 256, htons(TYPE_A) \div 256,
             htons(CLASS_IN) % 256, htons(CLASS_IN) \div 256>>

(***************************************************************************)
(* Response parser                                                         *)
(***************************************************************************)
\* The walk over the question name (lines 156-166): the offset just past the
\* terminating zero, or -1 when self._pkt_buf[ptr] raises IndexError.
RECURSIVE name_walk(_, _)
name_walk(buf, ptr) ==
    IF ptr >= Len(buf) THEN -1
    ELSE IF buf[ptr + 1] = 0 THEN ptr + 1
    ELSE name_walk(buf, ptr + buf[ptr + 1] + 1)

xid_unchecked(buf, rid) == TRUE

xid_matches(buf, rid) == from_bytes(Slice(buf, 0, 2)) = rid

flags_unchecked(buf) == TRUE

flags_valid(buf) == from_bytes(Slice(buf, 2, 4)) = RESPONSE_FLAGS

qr_count_valid(buf) == from_bytes(Slice(buf, 4, 6)) >= 1

an_count_unchecked(buf) == TRUE

an_count_valid(buf) == from_bytes(Slice(buf, 6, 8)) >= 1

ans_type_valid(buf, idx) == from_bytes(Slice(buf, idx + 2, idx + 4)) = TYPE_A

class_type_valid(buf, idx) == from_bytes(Slice(buf, idx + 4, idx + 6)) = CLASS_IN

data_length_unchecked(buf, idx) == TRUE

data_length_valid(buf, idx) == from_bytes(Slice(buf, idx + 10, idx + 12)) = DATA_LEN

Attempt(v, s) == [ret |-> v, site |-> s]

\* _parse_dns_response from line 129 on: the validation of the received
\* buffer against the stored request id.  site names the return statement.
parse_packet(buf, rid) ==
    IF ~xid_matches(buf, rid) THEN Attempt(IntVal(-1), "xid")
    ELSE IF ~flags_valid(buf) THEN Attempt(IntVal(-1), "flags")
    ELSE IF ~qr_count_valid(buf) THEN Attempt(IntVal(-1), "qr_count")
    ELSE IF ~an_count_valid(buf) THEN Attempt(IntVal(-1), "an_count")
    ELSE LET ptr == name_walk(buf, HEADER_LEN)
         IN  IF ptr = -1 THEN Attempt(Raised, "IndexError")
             ELSE IF from_bytes(Slice(buf, ptr, ptr + 2)) # TYPE_A
                  THEN Attempt(IntVal(-1), "q_type")
             ELSE IF from_bytes(Slice(buf, ptr + 2, ptr + 4)) # TYPE_A
                  THEN Attempt(IntVal(-1), "q_class")
             ELSE LET idx == find(buf)
                  IN  IF ~ans_type_valid(buf, idx)
                      THEN Attempt(IntVal(-1), "ans_type")
                      ELSE IF ~class_type_valid(buf, idx)
                      THEN Attempt(IntVal(-1), "class_type")
                      ELSE IF ~data_length_valid(buf, idx)
                      THEN Attempt(IntVal(-1), "data_length")
                      ELSE Attempt(BytesVal(Slice(buf, idx + 12, idx + 16)), "addr")

(***************************************************************************)
(* Control of gethostbyname                                                *)
(***************************************************************************)
server_never_missing(s) == FALSE

\* line 83: if self._dns_server is None
server_missing(s) == s = None

single_attempt(r, a) == r < 1 /\ IsMinusOne(a)

retry_until_limit(r, a) == r < MAX_ATTEMPTS

\* line 99: while (retries < 3) and (addr == -1)
loop_continues(r, a) == r < MAX_ATTEMPTS /\ IsMinusOne(a)

never_timed_out(e) == FALSE

\* line 118: (time.monotonic() - start_time) > 1.0
timed_out(e) == e > DEADLINE_TICKS

\* line 122: time.sleep(0.05); past the deadline the comparison of line 118
\* no longer changes, so the tick count saturates there.
sleep(e) == Min(e + 1, DEADLINE_TICKS + 1)

\* lines 87-88: the packet buffer after both builders ran on it
build_query(buf, rid, h) == build_dns_question(build_dns_header(buf, rid), h)

(***************************************************************************)
(* The environment: the client's inputs and the datagrams a peer may send  *)
(***************************************************************************)
\* getrandbits(16) draws from 0..65535; the model draws from these.
RequestIds == {52, 4608, 49164}

\* hostnames handed to gethostbyname: "a.b" and "cd"
Hostnames == {<<97, 46, 98>>, <<99, 100>>}

Servers == {None, "8.8.8.8"}

ADDRESS == <<93, 184, 216, 34>>

Header(id, flags, qd, an) ==
    <<id \div 256, id % 256, flags \div 256, flags % 256,
      qd \div 256, qd % 256, 0, an, 0, 0, 0, 0>>

Question(h, qtype, qclass) ==
    append_labels(<<>>, split(h)) \o <<0, 0, qtype, 0, qclass>>

Answer(name, atype, aclass, rdlen, rdata) ==
    name \o <<0, atype, 0, aclass, 0, 0, 0, 60, 0, rdlen>> \o rdata

Pointer == <<POINTER_HI, POINTER_LO>>

\* The well-formed response to the query (id, h) carrying address a.
GoodResponse(id, h, a) ==
    Header(id, RESPONSE_FLAGS, 1, 1) \o Question(h, 1, 1)
        \o Answer(Pointer, 1, 1, 4, a)

\* The same response with ANCOUNT = 0.
NoAnswerResponse(id, h, a) ==
    Header(id, RESPONSE_FLAGS, 1, 0) \o Question(h, 1, 1)
        \o Answer(Pointer, 1, 1, 4, a)

\* A response whose QDCOUNT bytes are C0 0C, laid out so that the fields read
\* after that pair (ANCOUNT as type, NSCOUNT as class, bytes 14-15 as data
\* length, bytes 16-19 as address) pass every check, while bytes 12-20 are
\* also a question name of two labels.
CountsAsPointer(id, a) ==
    <<id \div 256, id % 256, RESPONSE_FLAGS \div 256, RESPONSE_FLAGS % 256,
      POINTER_HI, POINTER_LO, 0, 1, 0, 1, 0, 0, 2, 97, 0, 4>>
        \o a \o <<0, 0, 1, 0, 1>>

\* A datagram without any C0 0C pair, laid out so that the fields read when
\* find returns -1 (bytes 1-2 as type, 3-4 as class, 9-10 as data length,
\* 11-14 as address) hold 1, 1 and 4; it matches ids whose low byte is 0 and
\* its flags are 01 00.
NoPointerLookalike(id) ==
    <<id \div 256, 0, 1, 0, 1, 0, 0, 1, 0, 0, 4, 10, 1, 97, 0, 0, 1, 0, 1>>

\* The datagrams that may arrive while the query (rid, h) is
\* outstanding: the well-formed response, and responses with one field off
\* or cut short.
Datagrams(rid, h) ==
    LET good == GoodResponse(rid, h, ADDRESS)
        q    == Question(h, 1, 1)
        cut  == Len(good) - 4
    IN  { good,
          GoodResponse((rid + 1) % 65536, h, ADDRESS),
          Header(rid, 33155, 1, 1) \o q \o Answer(Pointer, 1, 1, 4, ADDRESS),
          Header(rid, RESPONSE_FLAGS, 0, 1) \o q \o Answer(Pointer, 1, 1, 4, ADDRESS),
          NoAnswerResponse(rid, h, ADDRESS),
          Header(rid, RESPONSE_FLAGS, 1, 1) \o Question(h, 5, 1)
              \o Answer(Pointer, 1, 1, 4, ADDRESS),
          Header(rid, RESPONSE_FLAGS, 1, 1) \o Question(h, 1, 3)
              \o Answer(Pointer, 1, 1, 4, ADDRESS),
          Header(rid, RESPONSE_FLAGS, 1, 1) \o q \o Answer(Pointer, 5, 1, 4, ADDRESS),
          Header(rid, RESPONSE_FLAGS, 1, 1) \o q \o Answer(Pointer, 1, 3, 4, ADDRESS),
          Header(rid, RESPONSE_FLAGS, 1, 1) \o q \o Answer(Pointer, 1, 1, 16, ADDRESS),
          Header(rid, RESPONSE_FLAGS, 1, 1) \o q \o Answer(<<0>>, 1, 1, 4, ADDRESS),
          Header(rid, RESPONSE_FLAGS, 1, 1) \o q
              \o Pointer \o <<0, 1, 0, 1, 0, 0, 0, 60, 4>>,
          Header(rid, RESPONSE_FLAGS, 1, 1) \o <<63, 97>>,
          CountsAsPointer(rid, ADDRESS) }
        \cup { SubSeq(good, 1, cut + k) : k \in 0..3 }
        \cup (IF rid % 256 = 0 THEN {NoPointerLookalike(rid)} ELSE {})

NoDatagram == <<>>

(***************************************************************************)
(* State machine                                                           *)
(***************************************************************************)
NoOps == [connect |-> 0, send |-> 0, recv |-> 0, close |-> 0]

Init ==
    /\ dns_server \in Servers
    /\ host = 0
    /\ request_id = 0
    /\ pkt_buf = <<>>
    /\ pc = "idle"
    /\ retries = 0
    /\ addr = IntVal(-1)
    /\ elapsed = 0
    /\ rx = NoDatagram
    /\ ops = NoOps
    /\ polled = FALSE
    /\ outcomes = <<>>
    /\ result = NoValue
    /\ call_id = 0

\* gethostbyname, lines 83-84: no server configured.
GetHostByNameNoServer(h) ==
    /\ pc = "idle"
    /\ server_missing(dns_server)
    /\ result' = IntVal(INVALID_SERVER)
    /\ ops' = NoOps
    /\ polled' = FALSE
    /\ outcomes' = <<>>
    /\ UNCHANGED <<dns_server, host, request_id, pkt_buf, pc, retries, addr,
                   elapsed, rx, call_id>>

\* gethostbyname, lines 85-98: build the query, connect, send, enter the loop.
GetHostByName(h, rid) ==
    /\ pc = "idle"
    /\ ~server_missing(dns_server)
    /\ Len(build_query(pkt_buf, rid, h)) <= MaxBufLen
    /\ host' = h
    /\ request_id' = rid
    /\ call_id' = rid
    /\ pkt_buf' = build_query(pkt_buf, rid, h)
    /\ ops' = [NoOps EXCEPT !.connect = 1, !.send = 1]
    /\ polled' = FALSE
    /\ retries' = 0
    /\ addr' = IntVal(-1)
    /\ outcomes' = <<>>
    /\ result' = NoValue
    /\ elapsed' = 0
    /\ pc' = "attempt"
    /\ UNCHANGED <<dns_server, rx>>

\* Lines 100-106 once _parse_dns_response came back with a (a.ret from the
\* return statement a.site), having left buf in self._pkt_buf and pending in
\* the socket, after nrecv calls of recv.
EndAttempt(a, buf, pending, nrecv) ==
    /\ pkt_buf' = buf
    /\ outcomes' = Append(outcomes, a.site)
    /\ polled' = TRUE
    /\ elapsed' = 0
    /\ IF a.ret.type = "raise"
       THEN \* IndexError leaves gethostbyname; line 105 is not reached
            /\ pc' = "idle"
            /\ result' = Raised
            /\ rx' = pending
            /\ ops' = [ops EXCEPT !.recv = @ + nrecv]
            /\ UNCHANGED <<retries, addr>>
       ELSE /\ retries' = retries + 1
            /\ addr' = a.ret
            /\ IF loop_continues(retries + 1, a.ret)
               THEN /\ pc' = "attempt"
                    /\ rx' = pending
                    /\ ops' = [ops EXCEPT !.recv = @ + nrecv]
                    /\ UNCHANGED result
               ELSE /\ pc' = "idle"
                    /\ rx' = NoDatagram
                    /\ ops' = [ops EXCEPT !.recv = @ + nrecv, !.close = @ + 1]
                    /\ result' = a.ret
    /\ UNCHANGED <<dns_server, host, request_id, call_id>>

\* What may have reached the socket between two polls of available().
Arrivals == Datagrams(request_id, host) \cup {NoDatagram}

\* _parse_dns_response, lines 114-116: the first poll of an attempt.  arrived
\* is what reached the socket since the last poll (NoDatagram: nothing).
FirstPollFrom(arrivals) ==
    /\ pc = "attempt"
    /\ \E arrived \in arrivals :
       LET pending == IF rx # NoDatagram THEN rx ELSE arrived
           packet_sz == Len(pending)
       IN  IF packet_sz <= 0
           THEN /\ pc' = "loop"
                /\ elapsed' = 0
                /\ polled' = TRUE
                /\ UNCHANGED <<dns_server, host, request_id, pkt_buf, retries,
                               addr, rx, ops, outcomes, result, call_id>>
           ELSE EndAttempt(parse_packet(pending, request_id), pending,
                           NoDatagram, 1)

\* _parse_dns_response, lines 117-122: one turn of the wait loop, and, when
\* it ends the wait, the receive and parse that follow.
PollFrom(arrivals) ==
    /\ pc = "loop"
    /\ \E arrived \in arrivals :
       LET pending == IF rx # NoDatagram THEN rx ELSE arrived
           packet_sz == Len(pending)
       IN  IF timed_out(elapsed)
           THEN EndAttempt(Attempt(IntVal(TIMED_OUT), "timeout"), pkt_buf,
                           pending, 0)
           ELSE IF packet_sz <= 0
           THEN /\ elapsed' = sleep(elapsed)
                /\ UNCHANGED <<dns_server, host, request_id, pkt_buf, pc,
                               retries, addr, rx, ops, polled, outcomes,
                               result, call_id>>
           ELSE EndAttempt(parse_packet(pending, request_id), pending,
                           NoDatagram, 1)

FirstPoll == FirstPollFrom(Arrivals)

Poll == PollFrom(Arrivals)

\* The same two steps on a socket that never reports any bytes.
QuietFirstPoll == FirstPollFrom({NoDatagram})

QuietPoll == PollFrom({NoDatagram})

Next ==
    \/ \E h \in Hostnames : GetHostByNameNoServer(h)
    \/ \E h \in Hostnames, rid \in RequestIds : GetHostByName(h, rid)
    \/ FirstPoll
    \/ Poll

Spec == Init /\ [][Next]_vars

QuietNext ==
    \/ \E h \in Hostnames : GetHostByNameNoServer(h)
    \/ \E h \in Hostnames, rid \in RequestIds : GetHostByName(h, rid)
    \/ QuietFirstPoll
    \/ QuietPoll

\* The client on a socket that never reports any bytes, with time advancing:
\* the interpreter keeps running the call it is in, and every turn of the
\* wait loop sleeps one tick.
QuietSpec ==
    Init /\ [][QuietNext]_vars /\ WF_vars(QuietFirstPoll) /\ WF_vars(QuietPoll)

\* Hostnames handed to the question builder: every byte string of up to
\* MaxHostLen bytes over "a", "b" and ".", and three longer ones.
MaxHostLen == 4

EXAMPLE_COM == <<101, 120, 97, 109, 112, 108, 101, 46, 99, 111, 109>>

\* a label of 63 bytes followed by ".b"
LongLabelHost == [i \in 1..63 |-> 97] \o <<DOT, 98>>

\* 253 bytes: three labels of 63 bytes and one of 61
FullLengthHost ==
    [i \in 1..253 |-> IF i \in {64, 128, 192} THEN DOT ELSE 97]

QuestionHosts ==
    UNION { [1..n -> {97, 98, DOT}] : n \in 1..MaxHostLen }
        \cup {EXAMPLE_COM, LongLabelHost, FullLengthHost}

\* gethostbyname after line 87: the header of a fresh buffer is written, the
\* question is not.
BuildInit ==
    /\ dns_server = "8.8.8.8"
    /\ host \in QuestionHosts
    /\ request_id \in RequestIds
    /\ pkt_buf = build_dns_header(<<>>, request_id)
    /\ pc = "build"
    /\ retries = 0
    /\ addr = IntVal(-1)
    /\ elapsed = 0
    /\ rx = NoDatagram
    /\ ops = NoOps
    /\ polled = FALSE
    /\ outcomes = <<>>
    /\ result = NoValue
    /\ call_id = request_id

\* gethostbyname, line 88: self._build_dns_question()
BuildDnsQuestion ==
    /\ pc = "build"
    /\ pkt_buf' = build_dns_question(pkt_buf, host)
    /\ pc' = "built"
    /\ UNCHANGED <<dns_server, host, request_id, retries, addr, elapsed, rx,
                   ops, polled, outcomes, result, call_id>>

BuildNext == BuildDnsQuestion

BuildSpec == BuildInit /\ [][BuildNext]_vars

TypeOK ==
    /\ pc \in {"idle", "attempt", "loop"}
    /\ retries \in 0..MAX_ATTEMPTS
    /\ elapsed \in 0..(DEADLINE_TICKS + 1)
    /\ Len(pkt_buf) <= MaxBufLen

(***************************************************************************)
(* Properties                                                              *)
(***************************************************************************)
Failure == IntVal(-1)

Last(q) == q[Len(q)]

\* The last attempt of the current/last call received a datagram, which is
\* then what self._pkt_buf holds.
Received == outcomes # <<>> /\ Last(outcomes) # "timeout"

\* The call has handed back a value (it did not leave by an exception).
Returned == pc = "idle" /\ result.type \in {"int", "bytes"}

\* C1: every call of gethostbyname that returns has invoked the socket's
\* close exactly once before returning, the missing-server return included.
C1_ClosedOnceOnEveryReturn == Returned => ops.close = 1

\* C2: during the first attempt of every call, before anything is received,
\* the packet buffer (the buffer that was handed to send) is exactly that
\* call's header followed by that call's question, built from empty.
C2_SentBufferRebuilt ==
    (pc # "idle" /\ outcomes = <<>>)
        => pkt_buf = build_query(<<>>, request_id, host)

\* C3: every non-error result of gethostbyname is exactly 4 bytes long.
C3_AddressIsFourBytes ==
    (pc = "idle" /\ result.type = "bytes") => Len(result.bytes) = 4

\* C4: the request id is the one generated when the call began for as long
\* as the call runs, and an attempt that received a datagram whose bytes 0-1
\* are not that id's two bytes (high byte first, as the header builder wrote
\* them) failed at the id check: no address comes from such a datagram.
C4_IdMustMatch ==
    /\ pc # "idle" => request_id = call_id
    /\ (Received /\ ~(/\ Len(pkt_buf) >= 2
                      /\ pkt_buf[1] = call_id \div 256
                      /\ pkt_buf[2] = call_id % 256))
           => (Last(outcomes) = "xid" /\ addr = Failure)

C4_Witness ==
    /\ pc = "idle"
    /\ result = Failure
    /\ outcomes = <<"xid", "xid", "xid">>
    /\ pkt_buf = GoodResponse((call_id + 1) % 65536, host, ADDRESS)

\* C5: an attempt that received a datagram whose bytes 2-3 are not 81 80
\* failed (at the id check or at the flags check): no address comes from it.
C5_FlagsMustMatch ==
    (Received /\ ~(Len(pkt_buf) >= 4 /\ pkt_buf[3] = 129 /\ pkt_buf[4] = 128))
        => (Last(outcomes) \in {"xid", "flags"} /\ addr = Failure)

C5_Witness ==
    /\ Received
    /\ Last(outcomes) = "flags"
    /\ pkt_buf = Header(request_id, 33155, 1, 1) \o Question(host, 1, 1)
                     \o Answer(Pointer, 1, 1, 4, ADDRESS)

\* The value the parser reads as the answer's data length: the bytes at
\* offsets 10 and 11 after the first C0 0C pair of the datagram.
RdLengthRead(buf) == from_bytes(Slice(buf, find(buf) + 10, find(buf) + 12))

\* C6: an attempt that received a datagram whose data length, as read, is
\* not 4 did not hand back an address.
C6_DataLengthMustBeFour ==
    (Received /\ RdLengthRead(pkt_buf) # 4) => addr.type # "bytes"

C6_Witness ==
    /\ Received
    /\ Last(outcomes) = "data_length"
    /\ addr = Failure
    /\ pkt_buf = Header(request_id, RESPONSE_FLAGS, 1, 1) \o Question(host, 1, 1)
                     \o Answer(Pointer, 1, 1, 16, ADDRESS)

\* C7: on a socket that never reports any bytes, every call with a
\* configured server ends: it hands back the failure -1 after 3 attempts
\* that each ran out of time, having received nothing.
C7_NoDataTerminates ==
    (pc # "idle")
        ~> (/\ pc = "idle"
            /\ result = IntVal(TIMED_OUT)
            /\ outcomes = <<"timeout", "timeout", "timeout">>
            /\ ops.recv = 0 /\ ops.close = 1)

C7_Witness ==
    /\ pc = "idle"
    /\ outcomes = <<"timeout", "timeout", "timeout">>
    /\ result = IntVal(TIMED_OUT)
    /\ ops.recv = 0

\* C8: when the first datagram received in a call is the well-formed
\* response to the call's query, the attempt hands back its 4 payload bytes.
C8_WellFormedResolves ==
    (/\ Received
     /\ \A i \in 1..(Len(outcomes) - 1) : outcomes[i] = "timeout"
     /\ pkt_buf = GoodResponse(request_id, host, ADDRESS))
        => addr = BytesVal(ADDRESS)

\* C9 as stated: when the response with ANCOUNT = 0 is received in the first
\* attempt and it is the only datagram the call receives, every attempt of
\* the call ends at the answer-count check.
C9_NoAnswerOnEveryAttempt ==
    (/\ outcomes # <<>>
     /\ outcomes[1] = "an_count"
     /\ ops.recv = 1
     /\ pkt_buf = NoAnswerResponse(request_id, host, ADDRESS))
        => \A i \in DOMAIN outcomes : outcomes[i] = "an_count"

\* C9 as amended: an attempt that receives the response with ANCOUNT = 0
\* fails at the answer-count check, and a call whose attempts all ended at
\* that check or by running out of time made exactly 3 attempts and handed
\* back the failure -1.
C9_NoAnswerFails ==
    /\ (Received /\ pkt_buf = NoAnswerResponse(request_id, host, ADDRESS))
           => (Last(outcomes) = "an_count" /\ addr = Failure)
    /\ (/\ pc = "idle"
        /\ outcomes # <<>>
        /\ \A i \in DOMAIN outcomes : outcomes[i] \in {"an_count", "timeout"})
           => (result = Failure /\ Len(outcomes) = MAX_ATTEMPTS)

C9_Witness ==
    /\ pc = "idle"
    /\ result = Failure
    /\ outcomes = <<"an_count", "timeout", "timeout">>
    /\ pkt_buf = NoAnswerResponse(request_id, host, ADDRESS)

C11_FailuresAreDistinct ==
    (Returned /\ result.type = "int" /\ outcomes # <<>>)
        => /\ result = IntVal(TIMED_OUT) => Last(outcomes) = "timeout"
           /\ \A d \in Datagrams(request_id, host) :
                  parse_packet(d, request_id).ret = result
                      => parse_packet(d, request_id).site = Last(outcomes)

\* The question as the builder left it after the 12 header bytes.
QuestionBytes == SubSeq(pkt_buf, HEADER_LEN + 1, Len(pkt_buf))

\* The labels of a hostname, read off the positions of its dots.
Cuts(h) == {0, Len(h) + 1} \cup {i \in 1..Len(h) : h[i] = DOT}

NthCut(h, k) ==
    CHOOSE c \in Cuts(h) : Cardinality({b \in Cuts(h) : b < c}) = k

LabelsOf(h) ==
    [k \in 1..(Cardinality(Cuts(h)) - 1) |->
        SubSeq(h, NthCut(h, k - 1) + 1, NthCut(h, k) - 1)]

\* A reader of an uncompressed name (RFC 1035, 3.1): the labels up to the
\* first zero length byte and the offset just past it, -1 when the name is
\* not one.
RECURSIVE decode_name(_, _)
decode_name(q, pos) ==
    IF pos >= Len(q) \/ q[pos + 1] > 63 THEN [labels |-> <<>>, next |-> -1]
    ELSE IF q[pos + 1] = 0 THEN [labels |-> <<>>, next |-> pos + 1]
    ELSE LET rest == decode_name(q, pos + 1 + q[pos + 1])
         IN  [labels |-> <<SubSeq(q, pos + 2, pos + 1 + q[pos + 1])>>
                            \o rest.labels,
              next |-> rest.next]

LabelsAtMost63(h) ==
    Len(h) <= 253 /\ \A k \in DOMAIN LabelsOf(h) : Len(LabelsOf(h)[k]) <= 63

NoEmptyLabel(h) == \A k \in DOMAIN LabelsOf(h) : Len(LabelsOf(h)[k]) >= 1

\* Each label's length byte takes the place of the dot before it (the first
\* one goes in front), the label bytes follow unchanged, then 00, 00 01, 00 01.
QuestionLayout(q, h) ==
    /\ Len(q) = Len(h) + 6
    /\ \A k \in DOMAIN LabelsOf(h) :
           /\ q[NthCut(h, k - 1) + 1] = Len(LabelsOf(h)[k])
           /\ SubSeq(q, NthCut(h, k - 1) + 2, NthCut(h, k)) = LabelsOf(h)[k]
    /\ SubSeq(q, Len(h) + 2, Len(q)) = <<0, 0, 1, 0, 1>>

QuestionRoundTrips(q, h) ==
    /\ decode_name(q, 0).labels = LabelsOf(h)
    /\ decode_name(q, 0).next # -1
    /\ SubSeq(q, decode_name(q, 0).next + 1, Len(q)) = <<0, 1, 0, 1>>

EXAMPLE_COM_QUESTION ==
    <<7, 101, 120, 97, 109, 112, 108, 101, 3, 99, 111, 109, 0, 0, 1, 0, 1>>

\* C12 as stated: for every hostname of dot-separated labels of at most 63
\* bytes each and at most 253 bytes in all, the appended bytes are the length
\* byte and bytes of each label, 00, 00 01, 00 01, and a reference decoder
\* reads the original label sequence back from them.
C12_EveryHostnameRoundTrips ==
    (pc = "built" /\ LabelsAtMost63(host))
        => /\ QuestionLayout(QuestionBytes, host)
           /\ QuestionRoundTrips(QuestionBytes, host)

\* C12, amended: the layout holds for every such hostname; the decoder reads
\* the label sequence back when no label is empty (a zero length byte is the
\* terminator); example.com gives 07 65 78 61 6D 70 6C 65 03 63 6F 6D 00 00
\* 01 00 01.
C12_QuestionEncoding ==
    (pc = "built" /\ LabelsAtMost63(host))
        => /\ QuestionLayout(QuestionBytes, host)
           /\ NoEmptyLabel(host) => QuestionRoundTrips(QuestionBytes, host)
           /\ host = EXAMPLE_COM => QuestionBytes = EXAMPLE_COM_QUESTION

C12_Witness ==
    /\ pc = "built"
    /\ host = EXAMPLE_COM
    /\ QuestionBytes = EXAMPLE_COM_QUESTION
    /\ decode_name(QuestionBytes, 0).labels
           = <<<<101, 120, 97, 109, 112, 108, 101>>, <<99, 111, 109>>>>

\* C13: once a call has returned an address, a call for a different hostname
\* sends a query of its own: the header with its fresh id and the question
\* for its hostname, and nothing left from the first call.
C13_SecondCallIsIndependent ==
    [][(/\ pc = "idle"
        /\ result.type = "bytes"
        /\ pc' = "attempt"
        /\ host' # host)
           => pkt_buf' = build_query(<<>>, request_id', host')]_vars

\* C14 as stated: a timed-out attempt ends the call at once; no attempt
\* follows a timed-out attempt in the same call.
C14_TimeoutEndsTheCall ==
    \A i \in 1..Len(outcomes) :
        outcomes[i] = "timeout" => (i = Len(outcomes) /\ pc = "idle")

\* C14, amended: a timed-out attempt counts as one of the 3 attempts like a
\* failed parse: after the first or second the call goes on to another
\* attempt, after the third it closes the socket and returns -1.
C14_TimeoutIsOneAttempt ==
    (outcomes # <<>> /\ Last(outcomes) = "timeout")
        => IF Len(outcomes) < MAX_ATTEMPTS
           THEN pc \in {"attempt", "loop"} /\ result = NoValue
           ELSE pc = "idle" /\ result = Failure /\ ops.close = 1

C14_Witness ==
    /\ pc = "idle"
    /\ outcomes = <<"timeout", "addr">>
    /\ ops.recv = 1
    /\ result = BytesVal(ADDRESS)

\* C15: in every call of a client with a server the query is connected and
\* sent once, before the first attempt, and never again; the call makes at
\* least one and at most 3 attempts, and an attempt that hands back an address
\* is the last one.
C15_SentOnceAttemptsBounded ==
    (dns_server # None /\ (pc # "idle" \/ result # NoValue))
        => /\ ops.connect = 1
           /\ ops.send = 1
           /\ request_id = call_id
           /\ Len(outcomes) <= MAX_ATTEMPTS
           /\ ops.recv <= Len(outcomes)
           /\ pc = "idle" => Len(outcomes) >= 1
           /\ \A i \in 1..Len(outcomes) :
                  outcomes[i] = "addr" => (i = Len(outcomes) /\ pc = "idle")

C15_Witness ==
    /\ pc = "idle"
    /\ Len(outcomes) = MAX_ATTEMPTS
    /\ outcomes[1] # "addr"
    /\ outcomes[2] # "addr"
    /\ outcomes[3] = "addr"
    /\ ops.connect = 1
    /\ ops.send = 1

\* C16: a received datagram that passes the id, flags and count checks and
\* whose question name runs past its end makes the attempt fail with a
\* classified failure, and the call returns normally: no read beyond the
\* datagram is made.
C16_NameWalkStaysInside ==
    (/\ Received
     /\ xid_matches(pkt_buf, request_id)
     /\ flags_valid(pkt_buf)
     /\ qr_count_valid(pkt_buf)
     /\ an_count_valid(pkt_buf)
     /\ name_walk(pkt_buf, HEADER_LEN) = -1)
        => /\ Last(outcomes) # "IndexError"
           /\ result # Raised
           /\ pc = "idle" => ops.close = 1

\* C18: whenever an attempt hands back an address, the C0 0C pair it was read
\* after lies at or after the end of the question (the offset just past
\* QCLASS found by the name walk).
C18_AnswerFollowsQuestion ==
    (Received /\ addr.type = "bytes")
        => find(pkt_buf) >= name_walk(pkt_buf, HEADER_LEN) + 4

\* C19: an attempt ends in a timeout only if the poll of available() just
\* before reported no bytes: no attempt times out leaving in the socket a
\* datagram that its last poll reported.
C19_TimeoutOnlyWithoutData ==
    (outcomes # <<>> /\ Last(outcomes) = "timeout") => rx = NoDatagram

NoPointerPair(buf) ==
    \A i \in 1..(Len(buf) - 1) :
        ~(buf[i] = POINTER_HI /\ buf[i + 1] = POINTER_LO)

\* C17: no attempt hands back an address from a received datagram that holds
\* no C0 0C pair anywhere, whatever checks the datagram passes.
C17_NoPointerNoAddress ==
    (Received /\ NoPointerPair(pkt_buf)) => addr.type # "bytes"

\* A datagram without the pair that passed the id, flags, count and question
\* checks and was turned down at the answer type.
C17_Witness ==
    /\ Received
    /\ NoPointerPair(pkt_buf)
    /\ find(pkt_buf) = -1
    /\ Last(outcomes) = "ans_type"
    /\ addr = Failure

====
